---- MODULE Spec2Model ----
(***************************************************************************)
(* Model of the DMPool backup manager (src/src/backup/mod.rs).             *)
(*                                                                         *)
(* The file system is the program's state: the live store directory        *)
(* (store_path) and the backups root (backup_dir), one sub-directory per   *)
(* backup.  A file is a record: data files carry their bytes, a            *)
(* metadata.json written by save_metadata carries the serialized           *)
(* BackupMetadata.  Utc::now() is a clock of sub-second ticks; directory   *)
(* names only keep the second ("%Y%m%d_%H%M%S").                           *)
(***************************************************************************)
EXTENDS Integers, Sequences, FiniteSets, TLC

\* ---------------------------------------------------------------- bounds
\* clock ticks per second: several operations can fall into one second
TicksPerSec == 3
\* the clock stops at MaxClock; operations happen at ticks 0 .. MaxClock-1
MaxClock == 4
\* retention counts a manager can be constructed with: 0 .. MaxRetention
MaxRetention == 1
\* file-system errors (a failing copy or removal) and external changes of a
\* backup directory in one behaviour
MaxFaults == 1
\* retention counts of the catalog specification: 0 .. MaxSeries
MaxSeries == 2
\* lengths a file of a backup directory is truncated to: 0 .. MaxTrunc
MaxTrunc == 1
\* size_bytes of the records saved and loaded on their own: 0 .. MaxSize
MaxSize == 11

\* ------------------------------------------------------------ file model
BackupPrefix == "dmpool_backup_"
PreRestorePrefix == "pre_restore_"
\* the name of a directory somebody else made under the backups root
OtherPrefix == "lost+found"
Sidecar == "metadata.json"
Sentinel == "CURRENT"

\* files the live service keeps in its store directory
DataNames == {"CURRENT", "LOCK"}
\* files the live service creates and removes while it runs
VolatileNames == {"LOCK"}
\* the bytes the live service writes into each of its files
Blobs == [f \in DataNames |-> IF f = "CURRENT" THEN <<1>> ELSE <<2>>]

MaxSec == (MaxClock - 1) \div TicksPerSec
DirNames == [pre : {BackupPrefix, PreRestorePrefix}, ts : 0..MaxSec]

OtherDir == [pre |-> OtherPrefix, ts |-> 0]
\* the names commands are given: the directories there can be, and no others
CatalogNames == DirNames \cup {OtherDir}

\* format!("<prefix>{}", timestamp.format("%Y%m%d_%H%M%S"))
DirName(pre, timestamp) == [pre |-> pre, ts |-> timestamp \div TicksPerSec]

NoName == [pre |-> "", ts |-> 0]

DataFile(b) == [bytes |-> b, json |-> {}]

EmptyFiles == [f \in {} |-> DataFile(<<>>)]

\* a subdirectory, as an entry of a directory
SubDir(files) == [entries |-> files]

\* path.is_file()
is_file(entry) == "bytes" \in DOMAIN entry

\* mutant: the copy loop takes every entry of the source
CopiedNames_all(src) == DOMAIN src

\* the entries the loop of copy_database_files copies
CopiedNames(src) == {f \in DOMAIN src : is_file(src[f])}

\* mutant: the first loop removes nothing
ClearedNames_none(dest) == {}

\* the entries the first loop of restore_database_files removes
ClearedNames(dest) == {f \in DOMAIN dest : is_file(dest[f])}

\* the entries the second loop of restore_database_files copies
RestoredNames(files) == {f \in DOMAIN files : is_file(files[f])}

\* the store_path the manager is constructed with, and another one
StorePath == "/var/lib/dmpool/store"
ElsewherePath == "/mnt/store"

\* a BackupMetadata built by the manager: store_path is self.store_path
BackupMetadata(name, created, path, size, ver) ==
    [backup_name |-> name, created_at |-> created, store_path |-> StorePath,
     backup_path |-> path, size_bytes |-> size, version |-> ver]

\* a u64 as serde_json writes it: its decimal digits
RECURSIVE Decimal(_)
Decimal(n) == IF n < 10 THEN <<n>> ELSE Append(Decimal(n \div 10), n % 10)

\* ... and as serde_json reads it
RECURSIVE ParseDecimal(_)
ParseDecimal(s) ==
    IF s = <<>> THEN 0
    ELSE 10 * ParseDecimal(SubSeq(s, 1, Len(s) - 1)) + s[Len(s)]

\* mutant: the timestamp is written as the directory name has it, to the second
rfc3339_secs(t) == [secs |-> t \div TicksPerSec, frac |-> 0]

\* a DateTime<Utc> as chrono's Serialize writes it: RFC 3339, the seconds
\* and the fraction of the second
rfc3339(t) == [secs |-> t \div TicksPerSec, frac |-> t % TicksPerSec]

\* ... and as chrono's Deserialize reads it
parse_rfc3339(x) == x.secs * TicksPerSec + x.frac

\* the JSON object of a record: each field as its value is written
ToJson(md) ==
    [backup_name |-> md.backup_name, created_at |-> rfc3339(md.created_at),
     store_path |-> md.store_path, backup_path |-> md.backup_path,
     size_bytes |-> Decimal(md.size_bytes), version |-> md.version]

FromJson(t) ==
    [backup_name |-> t.backup_name, created_at |-> parse_rfc3339(t.created_at),
     store_path |-> t.store_path, backup_path |-> t.backup_path,
     size_bytes |-> ParseDecimal(t.size_bytes), version |-> t.version]

\* serde_json::to_string_pretty: the text of a metadata sidecar
to_string_pretty(md) == [bytes |-> <<>>, json |-> {ToJson(md)}]

\* serde_json::from_str: the record, or nothing when the text is not one
from_str(file) == {FromJson(t) : t \in file.json}

\* length of the sidecar text apart from the digits of size_bytes
JsonFixedLen == 8

\* entry.metadata()?.len()
FileLen(file) ==
    IF file.json = {} THEN Len(file.bytes)
    ELSE JsonFixedLen + Len((CHOOSE t \in file.json : TRUE).size_bytes)

RECURSIVE SumLen(_, _)
SumLen(files, S) ==
    IF S = {} THEN 0
    ELSE LET f == CHOOSE x \in S : TRUE
         IN FileLen(files[f]) + SumLen(files, S \ {f})

calculate_size(files) == SumLen(files, {f \in DOMAIN files : is_file(files[f])})

\* ------------------------------------------------------ directory helpers
create_dir_all(dirs, d, now) ==
    IF d \in DOMAIN dirs THEN dirs
    ELSE [x \in DOMAIN dirs \cup {d} |->
            IF x = d THEN [files |-> EmptyFiles, mtime |-> now] ELSE dirs[x]]

remove_dir_all(dirs, d) == [x \in DOMAIN dirs \ {d} |-> dirs[x]]

\* mutant: no file is removed
remove_files_none(files, S) == files

\* std::fs::remove_file for each file of S
remove_files(files, S) == [x \in DOMAIN files \ S |-> files[x]]

\* write the files new[f], f \in DOMAIN new, into a set of files
WriteInto(old, new) ==
    [f \in DOMAIN old \cup DOMAIN new |-> IF f \in DOMAIN new THEN new[f] ELSE old[f]]

\* std::fs::copy / std::fs::write into directory d; creating an entry
\* updates the directory's modification time
WriteFiles(dirs, d, new, now) ==
    [dirs EXCEPT ![d] =
        [files |-> WriteInto(dirs[d].files, new),
         mtime |-> IF DOMAIN new \subseteq DOMAIN dirs[d].files
                   THEN dirs[d].mtime ELSE now]]

\* the loop of copy_database_files over the files S of the source
copy_database_files(dirs, dest, src, S, now) ==
    WriteFiles(dirs, dest, [f \in S |-> src[f]], now)

save_metadata(dirs, metadata, now) ==
    WriteFiles(dirs, metadata.backup_path,
               [f \in {Sidecar} |-> to_string_pretty(metadata)], now)

\* mutant: the size of a synthesized record is not recomputed
load_metadata_nosize(dirs, d) ==
    IF d \notin DOMAIN dirs THEN {}
    ELSE IF Sidecar \notin DOMAIN dirs[d].files
    THEN {BackupMetadata(d, dirs[d].mtime, d, 0, "unknown")}
    ELSE from_str(dirs[d].files[Sidecar])

\* mutant: a record is synthesized for a directory that does not exist
load_metadata_missing(dirs, d) ==
    IF d \notin DOMAIN dirs THEN {BackupMetadata(d, 0, d, 0, "unknown")}
    ELSE IF Sidecar \notin DOMAIN dirs[d].files
    THEN {BackupMetadata(d, dirs[d].mtime, d, calculate_size(dirs[d].files), "unknown")}
    ELSE from_str(dirs[d].files[Sidecar])

\* the record of directory d: a set, empty when loading fails
load_metadata(dirs, d) ==
    IF d \notin DOMAIN dirs THEN {}
    ELSE IF Sidecar \notin DOMAIN dirs[d].files
    THEN {BackupMetadata(d, dirs[d].mtime, d, calculate_size(dirs[d].files), "unknown")}
    ELSE from_str(dirs[d].files[Sidecar])

Loaded(dirs, d) == CHOOSE m \in load_metadata(dirs, d) : TRUE

\* mutant: every directory of the backups root is listed
IsListedName_all(d) == TRUE

\* mutant: only the pre_restore_ directories are left out
IsListedName_notsnapshot(d) == d.pre # PreRestorePrefix

\* the filter of list_backups: directories with the backup prefix
IsListedName(d) == d.pre = BackupPrefix

Listed(dirs) ==
    {d \in DOMAIN dirs : IsListedName(d) /\ load_metadata(dirs, d) # {}}

\* backups.sort_by(|a, b| b.created_at.cmp(&a.created_at))
RECURSIVE SortDesc(_, _)
SortDesc(dirs, D) ==
    IF D = {} THEN <<>>
    ELSE LET d == CHOOSE x \in D :
                    \A y \in D : Loaded(dirs, y).created_at <= Loaded(dirs, x).created_at
         IN <<Loaded(dirs, d)>> \o SortDesc(dirs, D \ {d})

list_backups(dirs) == SortDesc(dirs, Listed(dirs))

\* mutant: the slice starts one record too late
\* mutant: the pass removes every record it listed
to_remove_all(backups, K) == backups

to_remove_late(backups, K) == SubSeq(backups, K + 2, Len(backups))

\* &backups[self.max_backups..]
to_remove(backups, K) == SubSeq(backups, K + 1, Len(backups))

\* mutant: a refused deletion is passed over and the loop goes on
RECURSIVE remove_each_continue(_, _, _, _)
remove_each_continue(dirs, rem, i, failAt) ==
    IF i > Len(rem) THEN [dirs |-> dirs, ok |-> failAt = 0]
    ELSE IF i = failAt \/ rem[i].backup_path \notin DOMAIN dirs
    THEN remove_each_continue(dirs, rem, i + 1, failAt)
    ELSE remove_each_continue(remove_dir_all(dirs, rem[i].backup_path), rem, i + 1, failAt)

\* the deletion loop of cleanup_old_backups; failAt is the index of the
\* deletion the file system refuses (0: none)
RECURSIVE remove_each(_, _, _, _)
remove_each(dirs, rem, i, failAt) ==
    IF i > Len(rem) THEN [dirs |-> dirs, ok |-> TRUE]
    ELSE IF i = failAt \/ rem[i].backup_path \notin DOMAIN dirs
    THEN [dirs |-> dirs, ok |-> FALSE]
    ELSE remove_each(remove_dir_all(dirs, rem[i].backup_path), rem, i + 1, failAt)

cleanup_old_backups(dirs, K, failAt) ==
    LET backups == list_backups(dirs)
    IN IF Len(backups) <= K THEN [dirs |-> dirs, ok |-> TRUE]
       ELSE remove_each(dirs, to_remove(backups, K), 1, failAt)

\* Ok(()) of cleanup_old_backups: the call returns no value
Unit == <<>>

validate_backup(dirs, metadata) ==
    IF metadata.backup_path \notin DOMAIN dirs THEN "Backup path does not exist"
    ELSE IF Sentinel \notin DOMAIN dirs[metadata.backup_path].files
    THEN "Invalid backup: missing CURRENT file"
    ELSE "ok"

\* mutant: a directory that is not there is a backup that does not verify
verify_absent(dirs, d) ==
    IF d \notin DOMAIN dirs THEN <<FALSE>>
    ELSE IF load_metadata(dirs, d) = {} THEN <<>>
    ELSE IF Sentinel \notin DOMAIN dirs[d].files THEN <<FALSE>>
    ELSE IF calculate_size(dirs[d].files) # Loaded(dirs, d).size_bytes THEN <<FALSE>>
    ELSE <<TRUE>>

\* BackupManager::verify reads the backups root and changes nothing; its
\* result is <<b>> for Ok(b), <<>> for Err
verify(dirs, d) ==
    IF d \notin DOMAIN dirs THEN <<>>
    ELSE IF load_metadata(dirs, d) = {} THEN <<>>
    ELSE IF Sentinel \notin DOMAIN dirs[d].files THEN <<FALSE>>
    ELSE IF calculate_size(dirs[d].files) # Loaded(dirs, d).size_bytes THEN <<FALSE>>
    ELSE <<TRUE>>

\* ------------------------------------------------------------------ state
VARIABLES
    store,          \* the regular files of the live store directory
    store_exists,   \* whether the live store directory exists
    backup_dir,     \* the backups root: directory name -> files and mtime
    max_backups,    \* the retention count of the manager
    clock,          \* Utc::now(), in ticks
    rs,             \* the restore call in progress
    last,           \* the last finished call and what it returned
    faults,         \* file-system errors injected so far
    snaps,          \* per successful restore: its snapshot and the live files at its start
    hist,           \* the records create_backup() has returned, when they are recorded
    sched,          \* the background loop of start_scheduler
    calls           \* the calls of two tasks that run at the same time, step by step

vars == <<store, store_exists, backup_dir, max_backups, clock, rs, last, faults, snaps,
          hist, sched, calls>>

Call(op, ok, name, err) ==
    [op |-> op, ok |-> ok, name |-> name, err |-> err,
     files |-> EmptyFiles, listed |-> <<>>, removed |-> {}, ret |-> Unit,
     fresh |-> FALSE, restored |-> NoName]

IdleRestore ==
    [pc |-> "idle", name |-> NoName, snap |-> NoName, todo |-> {},
     start |-> EmptyFiles, deleted |-> {}]

\* the tasks that call the manager at the same time: request handlers and
\* the scheduler loop
Tasks == {1, 2}

\* calls each task makes
MaxCalls == 2

\* a task that is in no call and has made none
IdleCall ==
    [op |-> "none", pc |-> "idle", name |-> NoName, at |-> 0, snap |-> NoName,
     todo |-> {}, rem |-> <<>>, listed |-> <<>>, ok |-> FALSE, err |-> "",
     overlap |-> FALSE, n |-> 0]

NoCalls == [p \in Tasks |-> IdleCall]

\* no record is kept of the calls
NoHistory == [on |-> FALSE, made |-> <<>>, pure |-> TRUE]

Init ==
    /\ store = [f \in {Sentinel} |-> DataFile(Blobs[f])]
    /\ store_exists = TRUE
    /\ backup_dir = [d \in {} |-> [files |-> EmptyFiles, mtime |-> 0]]
    /\ max_backups \in 0..MaxRetention
    /\ clock = 0
    /\ rs = IdleRestore
    /\ last = Call("new", TRUE, NoName, "")
    /\ faults = 0
    /\ snaps = {}
    /\ hist = NoHistory
    /\ sched = "off"
    /\ calls = NoCalls

\* ------------------------------------------------------------- operations
\* BackupManager::new with another retention count (a restart)
NewManager(k) ==
    /\ rs.pc = "idle"
    /\ k # max_backups
    /\ max_backups' = k
    /\ last' = Call("new", TRUE, NoName, "")
    /\ rs' = IdleRestore
    /\ UNCHANGED <<store, store_exists, backup_dir, clock, faults, snaps, hist, sched, calls>>

\* mutant: the retention pass also runs when the source is missing
BackupNoSource_trim(dirs, timestamp, K) ==
    cleanup_old_backups(create_dir_all(dirs, DirName(BackupPrefix, timestamp), timestamp),
                        K, 0).dirs

\* the backups root when backup() returns because the source is missing:
\* the directory is created, and that is all
BackupNoSource(dirs, timestamp, K) ==
    create_dir_all(dirs, DirName(BackupPrefix, timestamp), timestamp)

\* mutant: a copy loop that fails removes the directory again
BackupCopied_rollback(dirs, src, S, timestamp) ==
    LET backup_name == DirName(BackupPrefix, timestamp)
        copied == copy_database_files(create_dir_all(dirs, backup_name, timestamp),
                                      backup_name, src, S, timestamp)
    IN IF S = CopiedNames(src) THEN copied ELSE remove_dir_all(copied, backup_name)

\* the backups root once backup() has created the directory and copied the
\* files S of the store
BackupCopied(dirs, src, S, timestamp) ==
    LET backup_name == DirName(BackupPrefix, timestamp)
    IN copy_database_files(create_dir_all(dirs, backup_name, timestamp),
                           backup_name, src, S, timestamp)

\* the BackupMetadata backup() builds once every file is copied
BackupRecord(dirs, src, timestamp) ==
    LET backup_name == DirName(BackupPrefix, timestamp)
        copied == BackupCopied(dirs, src, CopiedNames(src), timestamp)
    IN BackupMetadata(backup_name, timestamp, backup_name,
                      calculate_size(copied[backup_name].files), "pkg")

\* ... and, when S is all the files of the store, saved the sidecar
BackupWritten(dirs, src, S, timestamp) ==
    IF S = CopiedNames(src)
    THEN save_metadata(BackupCopied(dirs, src, S, timestamp),
                       BackupRecord(dirs, src, timestamp), timestamp)
    ELSE BackupCopied(dirs, src, S, timestamp)

\* the history once create_backup() returned metadata for a directory
\* holding files; clean: the call removed no directory
Returned(h, metadata, files, clean) ==
    IF ~h.on THEN h
    ELSE [h EXCEPT !.made = Append(h.made, [metadata |-> metadata, files |-> files]),
                   !.pure = h.pure /\ clean]

\* the history once a call other than a successful create_backup() has
\* touched the backups root
Spoiled(h) == IF ~h.on THEN h ELSE [h EXCEPT !.pure = FALSE]

\* BackupManager::backup when Utc::now() is timestamp.  S: the files copied
\* when the copy loop ends (all of them, or fewer when a copy fails);
\* failAt: see remove_each
BackupAt(timestamp, S, failAt) ==
    /\ rs.pc = "idle"
    /\ S \subseteq CopiedNames(store)
    /\ LET backup_name == DirName(BackupPrefix, timestamp)
           written == BackupWritten(backup_dir, store, S, timestamp)
       IN IF ~store_exists
          THEN /\ failAt = 0
               /\ backup_dir' = BackupNoSource(backup_dir, timestamp, max_backups)
               /\ last' = Call("backup", FALSE, backup_name, "Source database not found")
               /\ hist' = Spoiled(hist)
               /\ UNCHANGED faults
          ELSE IF S # CopiedNames(store)
          THEN /\ failAt = 0
               /\ faults < MaxFaults
               /\ faults' = faults + 1
               /\ backup_dir' = written
               /\ last' = Call("backup", FALSE, backup_name, "Failed to copy")
               /\ hist' = Spoiled(hist)
          ELSE LET c == cleanup_old_backups(written, max_backups, failAt)
               IN /\ failAt <= Len(to_remove(list_backups(written), max_backups))
                  /\ failAt > 0 => faults < MaxFaults
                  /\ faults' = IF failAt > 0 THEN faults + 1 ELSE faults
                  /\ backup_dir' = c.dirs
                  /\ hist' = IF c.ok
                             THEN Returned(hist, BackupRecord(backup_dir, store, timestamp),
                                           written[backup_name].files,
                                           DOMAIN c.dirs = DOMAIN written)
                             ELSE Spoiled(hist)
                  /\ last' = [Call("backup", c.ok, backup_name,
                                   IF c.ok THEN "" ELSE "Failed to remove backup")
                                EXCEPT !.files = written[backup_name].files,
                                       !.listed = list_backups(written),
                                       !.removed = DOMAIN written \ DOMAIN c.dirs,
                                       !.fresh = backup_name \notin DOMAIN backup_dir,
                                       !.restored = IF last.op = "restore" /\ last.ok
                                                    THEN last.name ELSE NoName]
    /\ rs' = IdleRestore
    /\ UNCHANGED <<store, store_exists, max_backups, snaps, calls>>

\* a call of backup()
Backup(S, failAt) ==
    /\ clock < MaxClock
    /\ BackupAt(clock, S, failAt)
    /\ clock' = clock + 1
    /\ UNCHANGED sched

\* cleanup_old_backups called on its own (the admin cleanup handler)
Cleanup(failAt) ==
    /\ rs.pc = "idle"
    /\ failAt <= Len(to_remove(list_backups(backup_dir), max_backups))
    /\ failAt > 0 => faults < MaxFaults
    /\ faults' = IF failAt > 0 THEN faults + 1 ELSE faults
    /\ LET c == cleanup_old_backups(backup_dir, max_backups, failAt)
       IN /\ backup_dir' = c.dirs
          /\ hist' = IF DOMAIN c.dirs = DOMAIN backup_dir THEN hist ELSE Spoiled(hist)
          /\ last' = [Call("cleanup", c.ok, NoName,
                           IF c.ok THEN "" ELSE "Failed to remove backup")
                        EXCEPT !.listed = list_backups(backup_dir),
                               !.removed = DOMAIN backup_dir \ DOMAIN c.dirs,
                               !.ret = Unit]
    /\ rs' = IdleRestore
    /\ UNCHANGED <<store, store_exists, max_backups, clock, snaps, sched, calls>>

\* mutant: the pre_restore_ directory is created before the checks
RestoreRejected_late(name, err) ==
    /\ last' = Call("restore", FALSE, name, err)
    /\ rs' = IdleRestore
    /\ backup_dir' = create_dir_all(backup_dir, DirName(PreRestorePrefix, clock), clock)
    /\ UNCHANGED clock

\* restore returns Err from its existence check, load_metadata or
\* validate_backup
RestoreRejected(name, err) ==
    /\ last' = Call("restore", FALSE, name, err)
    /\ rs' = IdleRestore
    /\ UNCHANGED <<backup_dir, clock>>

\* BackupManager::restore up to the start of the pre-restore copy: the
\* existence check, load_metadata, validate_backup, the creation of the
\* pre_restore_ directory and the source check of copy_database_files
RestoreBegin(name) ==
    /\ rs.pc = "idle"
    /\ clock < MaxClock
    /\ IF name \notin DOMAIN backup_dir
       THEN RestoreRejected(name, "Backup not found")
       ELSE IF load_metadata(backup_dir, name) = {}
       THEN RestoreRejected(name, "metadata")
       ELSE IF validate_backup(backup_dir, Loaded(backup_dir, name)) # "ok"
       THEN RestoreRejected(name, validate_backup(backup_dir, Loaded(backup_dir, name)))
       ELSE LET pre_restore_backup == DirName(PreRestorePrefix, clock)
            IN /\ backup_dir' = create_dir_all(backup_dir, pre_restore_backup, clock)
               /\ clock' = clock + 1
               /\ IF ~store_exists
                  THEN /\ last' = Call("restore", FALSE, name, "Source database not found")
                       /\ rs' = IdleRestore
                  ELSE /\ last' = Call("restoring", FALSE, name, "")
                       /\ rs' = [pc |-> "snap", name |-> name, snap |-> pre_restore_backup,
                                 todo |-> CopiedNames(store), start |-> store, deleted |-> {}]
    /\ hist' = Spoiled(hist)
    /\ UNCHANGED <<store, store_exists, max_backups, faults, snaps, sched, calls>>

\* a loop over the files todo handles the files S: all of them, or fewer
\* when the file system refuses one (an injected fault)
LoopOver(S, todo) ==
    /\ S \subseteq todo
    /\ S # todo => faults < MaxFaults
    /\ faults' = IF S # todo THEN faults + 1 ELSE faults

\* mutant: a restore that has copied every file runs the retention pass
RestoreCopy_trim(S) ==
    /\ rs.pc = "copy"
    /\ LoopOver(S, rs.todo)
    /\ store' = WriteInto(store, [x \in S |-> backup_dir[rs.name].files[x]])
    /\ rs' = [rs EXCEPT !.pc = "idle", !.todo = {}]
    /\ IF S # rs.todo
       THEN /\ last' = Call("restore", FALSE, rs.name, "io")
            /\ UNCHANGED <<snaps, backup_dir>>
       ELSE /\ last' = Call("restore", TRUE, rs.name, "")
            /\ snaps' = snaps \cup {[dir |-> rs.snap, files |-> rs.start]}
            /\ backup_dir' = cleanup_old_backups(backup_dir, max_backups, 0).dirs
    /\ UNCHANGED <<store_exists, max_backups, clock, hist, sched, calls>>

\* mutant: the error of the pre-restore copy is dropped and the restore goes on
RestoreSnapshot_unchecked(S) ==
    /\ rs.pc = "snap"
    /\ LoopOver(S, rs.todo)
    /\ backup_dir' = copy_database_files(backup_dir, rs.snap, store, S, clock)
    /\ rs' = [rs EXCEPT !.pc = "del", !.todo = ClearedNames(store)]
    /\ UNCHANGED <<store, store_exists, last, max_backups, clock, snaps, hist, sched, calls>>

\* the copy loop of copy_database_files(&pre_restore_path) copies the files
\* S of the store; when it ends without error restore_database_files starts
RestoreSnapshot(S) ==
    /\ rs.pc = "snap"
    /\ LoopOver(S, rs.todo)
    /\ backup_dir' = copy_database_files(backup_dir, rs.snap, store, S, clock)
    /\ IF S # rs.todo
       THEN /\ rs' = [rs EXCEPT !.pc = "idle", !.todo = {}]
            /\ last' = Call("restore", FALSE, rs.name, "Failed to copy")
            /\ UNCHANGED store_exists
       ELSE IF store_exists
       THEN /\ rs' = [rs EXCEPT !.pc = "del", !.todo = ClearedNames(store)]
            /\ UNCHANGED <<store_exists, last>>
       ELSE /\ rs' = [rs EXCEPT !.pc = "copy", !.todo = RestoredNames(backup_dir[rs.name].files)]
            /\ store_exists' = TRUE
            /\ UNCHANGED last
    /\ UNCHANGED <<store, max_backups, clock, snaps, hist, sched, calls>>

\* the removal loop of restore_database_files removes the files S of the
\* store; when it ends without error the copy loop starts
RestoreClear(S) ==
    /\ rs.pc = "del"
    /\ LoopOver(S, rs.todo)
    /\ store' = remove_files(store, S)
    /\ IF S # rs.todo
       THEN /\ rs' = [rs EXCEPT !.pc = "idle", !.todo = {}, !.deleted = S]
            /\ last' = Call("restore", FALSE, rs.name, "io")
       ELSE /\ rs' = [rs EXCEPT !.pc = "copy", !.deleted = S,
                                !.todo = RestoredNames(backup_dir[rs.name].files)]
            /\ UNCHANGED last
    /\ UNCHANGED <<store_exists, backup_dir, max_backups, clock, snaps, hist, sched, calls>>

\* the copy loop of restore_database_files copies the files S of the backup
\* into the store; when it ends without error restore returns Ok(())
RestoreCopy(S) ==
    /\ rs.pc = "copy"
    /\ LoopOver(S, rs.todo)
    /\ store' = WriteInto(store, [x \in S |-> backup_dir[rs.name].files[x]])
    /\ rs' = [rs EXCEPT !.pc = "idle", !.todo = {}]
    /\ IF S # rs.todo
       THEN /\ last' = Call("restore", FALSE, rs.name, "io")
            /\ UNCHANGED snaps
       ELSE /\ last' = Call("restore", TRUE, rs.name, "")
            /\ snaps' = snaps \cup {[dir |-> rs.snap, files |-> rs.start]}
    /\ UNCHANGED <<store_exists, backup_dir, max_backups, clock, hist, sched, calls>>

\* ------------------------------------------------------------ read calls
\* mutant: the first entry that fails to load ends the listing with its error
ListBackups_abort ==
    /\ rs.pc = "idle"
    /\ last' = IF \E d \in DOMAIN backup_dir :
                      IsListedName(d) /\ load_metadata(backup_dir, d) = {}
               THEN Call("list", FALSE, NoName, "metadata")
               ELSE [Call("list", TRUE, NoName, "")
                        EXCEPT !.listed = list_backups(backup_dir)]
    /\ rs' = IdleRestore
    /\ UNCHANGED <<store, store_exists, backup_dir, max_backups, clock, faults, snaps,
                   hist, sched, calls>>

\* BackupManager::list_backups, called by the admin list handler
ListBackups ==
    /\ rs.pc = "idle"
    /\ last' = [Call("list", TRUE, NoName, "") EXCEPT !.listed = list_backups(backup_dir)]
    /\ rs' = IdleRestore
    /\ UNCHANGED <<store, store_exists, backup_dir, max_backups, clock, faults, snaps,
                   hist, sched, calls>>

\* BackupManager::verify
Verify(name) ==
    /\ rs.pc = "idle"
    /\ LET r == verify(backup_dir, name)
       IN last' = [Call("verify", r # <<>>, name,
                        IF r # <<>> THEN ""
                        ELSE IF name \notin DOMAIN backup_dir THEN "Backup not found"
                        ELSE "metadata")
                     EXCEPT !.ret = r]
    /\ rs' = IdleRestore
    /\ UNCHANGED <<store, store_exists, backup_dir, max_backups, clock, faults, snaps,
                   hist, sched, calls>>

\* the admin handler get_backup: load_metadata of the named backup
GetBackup(name) ==
    /\ rs.pc = "idle"
    /\ LET m == load_metadata(backup_dir, name)
       IN last' = [Call("get", m # {}, name,
                        IF m # {} THEN ""
                        ELSE IF name \notin DOMAIN backup_dir THEN "NotFound"
                        ELSE "metadata")
                     EXCEPT !.ret = IF m = {} THEN Unit ELSE <<Loaded(backup_dir, name)>>]
    /\ rs' = IdleRestore
    /\ UNCHANGED <<store, store_exists, backup_dir, max_backups, clock, faults, snaps,
                   hist, sched, calls>>

\* the admin handler delete_backup: the explicit delete operation removes
\* the directory of the named backup
DeleteBackup(name) ==
    /\ rs.pc = "idle"
    /\ IF name \in DOMAIN backup_dir
       THEN /\ backup_dir' = remove_dir_all(backup_dir, name)
            /\ last' = [Call("delete", TRUE, name, "") EXCEPT !.removed = {name}]
            /\ hist' = Spoiled(hist)
       ELSE /\ last' = Call("delete", FALSE, name, "NotFound")
            /\ UNCHANGED <<backup_dir, hist>>
    /\ rs' = IdleRestore
    /\ UNCHANGED <<store, store_exists, max_backups, clock, faults, snaps, sched, calls>>

\* ------------------------------------------------------------ environment
\* the live service writes a file of its store
WriteStore(f) ==
    /\ rs.pc = "idle"
    /\ store_exists
    /\ store' = WriteInto(store, [x \in {f} |-> DataFile(Blobs[x])])
    /\ store' # store
    /\ last' = Call("write", TRUE, NoName, "")
    /\ rs' = IdleRestore
    /\ UNCHANGED <<store_exists, backup_dir, max_backups, clock, faults, snaps, hist, sched, calls>>

\* the live service removes a file of its store
RemoveStoreFile(f) ==
    /\ rs.pc = "idle"
    /\ f \in DOMAIN store
    /\ store' = remove_files(store, {f})
    /\ last' = Call("write", TRUE, NoName, "")
    /\ rs' = IdleRestore
    /\ UNCHANGED <<store_exists, backup_dir, max_backups, clock, faults, snaps, hist, sched, calls>>

\* the file cut to its first n bytes; a cut sidecar is no JSON text
Truncated(file, n) ==
    IF file.json = {} THEN DataFile(SubSeq(file.bytes, 1, n))
    ELSE DataFile([i \in 1..n |-> 0])

\* somebody removes the file f of the backup directory d
RemoveBackupFile(d, f) ==
    /\ rs.pc = "idle"
    /\ d \in DOMAIN backup_dir
    /\ f \in DOMAIN backup_dir[d].files
    /\ faults < MaxFaults
    /\ faults' = faults + 1
    /\ backup_dir' = [backup_dir EXCEPT ![d] =
                        [files |-> remove_files(backup_dir[d].files, {f}), mtime |-> clock]]
    /\ last' = [Call("tamper", TRUE, d, f) EXCEPT !.files = backup_dir[d].files]
    /\ hist' = Spoiled(hist)
    /\ rs' = IdleRestore
    /\ UNCHANGED <<store, store_exists, max_backups, clock, snaps, sched, calls>>

\* somebody truncates the file f of the backup directory d to n bytes
TruncateBackupFile(d, f, n) ==
    /\ rs.pc = "idle"
    /\ d \in DOMAIN backup_dir
    /\ f \in DOMAIN backup_dir[d].files
    /\ n < FileLen(backup_dir[d].files[f])
    /\ faults < MaxFaults
    /\ faults' = faults + 1
    /\ backup_dir' = [backup_dir EXCEPT ![d].files[f] = Truncated(@, n)]
    /\ last' = [Call("tamper", TRUE, d, f) EXCEPT !.files = backup_dir[d].files]
    /\ hist' = Spoiled(hist)
    /\ rs' = IdleRestore
    /\ UNCHANGED <<store, store_exists, max_backups, clock, snaps, sched, calls>>

\* time passes: the next second begins
Tick ==
    /\ clock < MaxClock
    /\ clock' = ((clock \div TicksPerSec) + 1) * TicksPerSec
    /\ clock' <= MaxClock
    /\ UNCHANGED <<store, store_exists, backup_dir, max_backups, rs, last, faults, snaps,
                   hist, sched, calls>>

Next ==
    \/ \E k \in 0..MaxRetention : NewManager(k)
    \/ \E S \in SUBSET (DataNames \cup {Sidecar}), failAt \in 0..MaxRetention : Backup(S, failAt)
    \/ \E failAt \in 0..MaxRetention : Cleanup(failAt)
    \/ \E name \in DirNames : RestoreBegin(name)
    \/ \E S \in SUBSET (DataNames \cup {Sidecar}) : RestoreSnapshot(S)
    \/ \E S \in SUBSET (DataNames \cup {Sidecar}) : RestoreClear(S)
    \/ \E S \in SUBSET (DataNames \cup {Sidecar}) : RestoreCopy(S)
    \/ \E f \in VolatileNames : WriteStore(f)
    \/ \E f \in VolatileNames : RemoveStoreFile(f)
    \/ Tick

Spec == Init /\ [][Next]_vars

\* --------------------------------------------------- the catalog and its records
\* the records create_backup() returns are kept
History == [on |-> TRUE, made |-> <<>>, pure |-> TRUE]

\* the backups root BackupManager::new finds: empty, or holding a directory
\* of another name into which somebody copied the store
FoundRoots ==
    {[d \in D |-> [files |-> [f \in {Sentinel} |-> DataFile(Blobs[f])], mtime |-> 0]] :
        D \in SUBSET {OtherDir}}

InitCatalog ==
    /\ store = [f \in {Sentinel} |-> DataFile(Blobs[f])]
    /\ store_exists = TRUE
    /\ backup_dir \in FoundRoots
    /\ max_backups \in 0..MaxSeries
    /\ clock = 0
    /\ rs = IdleRestore
    /\ last = Call("new", TRUE, NoName, "")
    /\ faults = 0
    /\ snaps = {}
    /\ hist = History
    /\ sched = "off"
    /\ calls = NoCalls

\* the names a caller gives: of the directories there are, and the name of
\* the call before
KnownNames == (DOMAIN backup_dir \cup {last.name}) \ {NoName}

NextCatalog ==
    \/ \E S \in SUBSET DataNames, failAt \in 0..MaxSeries : Backup(S, failAt)
    \/ \E failAt \in 0..MaxSeries : Cleanup(failAt)
    \/ ListBackups
    \/ \E name \in KnownNames : Verify(name)
    \/ \E d \in CatalogNames : \E f \in DataNames \cup {Sidecar} : RemoveBackupFile(d, f)
    \/ \E d \in CatalogNames : \E f \in DataNames \cup {Sidecar} :
          \E n \in 0..MaxTrunc : TruncateBackupFile(d, f, n)
    \/ \E f \in VolatileNames : WriteStore(f)
    \/ \E f \in VolatileNames : RemoveStoreFile(f)
    \/ Tick

SpecCatalog == InitCatalog /\ [][NextCatalog]_vars

\* ------------------------------------------- the admin's get and delete calls
NextAdmin ==
    \/ \E S \in SUBSET DataNames, failAt \in 0..MaxSeries : Backup(S, failAt)
    \/ \E failAt \in 0..MaxSeries : Cleanup(failAt)
    \/ \E name \in KnownNames : GetBackup(name)
    \/ \E name \in KnownNames : DeleteBackup(name)
    \/ \E f \in VolatileNames : WriteStore(f)
    \/ \E f \in VolatileNames : RemoveStoreFile(f)
    \/ Tick

SpecAdmin == InitCatalog /\ [][NextAdmin]_vars

\* ------------------------------------------------------------ the scheduler
Min(a, b) == IF a < b THEN a ELSE b

\* Utc::now() at tick t of the clock; past MaxClock the model tells no times apart
Now(t) == Min(t, MaxClock - 1)

\* interval.tick().await completes: the period, whole hours, has passed
TimerTick ==
    /\ sched = "wait"
    /\ sched' = "due"
    /\ clock' = Min(((clock \div TicksPerSec) + 1) * TicksPerSec, MaxClock)
    /\ UNCHANGED <<store, store_exists, backup_dir, max_backups, rs, last, faults, snaps,
                   hist, calls>>

\* mutant: the error of backup() leaves the loop
ScheduledBackup_propagate(S, failAt) ==
    /\ sched = "due"
    /\ BackupAt(Now(clock), S, failAt)
    /\ clock' = Min(clock + 1, MaxClock)
    /\ sched' = IF last'.ok THEN "wait" ELSE "ended"

\* the body of the loop: backup() is called, its error is logged, and the
\* loop waits for the next tick
ScheduledBackup(S, failAt) ==
    /\ sched = "due"
    /\ BackupAt(Now(clock), S, failAt)
    /\ clock' = Min(clock + 1, MaxClock)
    /\ sched' = "wait"

SchedulerRuns ==
    \E S \in SUBSET DataNames, failAt \in 0..MaxRetention : ScheduledBackup(S, failAt)

\* start_scheduler has spawned the loop: the first tick of a tokio interval
\* completes at once
InitSched ==
    /\ store = [f \in {Sentinel} |-> DataFile(Blobs[f])]
    /\ store_exists = TRUE
    /\ backup_dir = [d \in {} |-> [files |-> EmptyFiles, mtime |-> 0]]
    /\ max_backups \in 0..MaxRetention
    /\ clock = 0
    /\ rs = IdleRestore
    /\ last = Call("new", TRUE, NoName, "")
    /\ faults = 0
    /\ snaps = {}
    /\ hist = NoHistory
    /\ sched = "due"
    /\ calls = NoCalls

NextSched ==
    \/ TimerTick
    \/ SchedulerRuns
    \/ \E f \in VolatileNames : WriteStore(f)
    \/ \E f \in VolatileNames : RemoveStoreFile(f)

\* the steps of SchedulerRuns as the loop sees them: a call of backup() that
\* returns, after which the loop waits again.  A call can always be made
\* and return (S = CopiedNames(store), failAt = 0)
TaskRuns == sched = "due" /\ sched' = "wait"

\* the timer fires, and the spawned task runs when it has
SpecSched ==
    InitSched /\ [][NextSched]_vars /\ WF_vars(TimerTick) /\ WF_sched(TaskRuns)

\* ------------------------------------------- the live-data path comes and goes
\* the files of a running service
LiveFiles == [f \in DataNames |-> DataFile(Blobs[f])]

\* somebody removes the live-data directory
DropStore ==
    /\ rs.pc = "idle"
    /\ store_exists
    /\ store_exists' = FALSE
    /\ store' = EmptyFiles
    /\ last' = Call("write", TRUE, NoName, "")
    /\ rs' = IdleRestore
    /\ UNCHANGED <<backup_dir, max_backups, clock, faults, snaps, hist, sched, calls>>

\* the service starts on an absent directory: it creates it and its files
CreateStore ==
    /\ rs.pc = "idle"
    /\ ~store_exists
    /\ store_exists' = TRUE
    /\ store' = LiveFiles
    /\ last' = Call("write", TRUE, NoName, "")
    /\ rs' = IdleRestore
    /\ UNCHANGED <<backup_dir, max_backups, clock, faults, snaps, hist, sched, calls>>

InitLive ==
    /\ store = LiveFiles
    /\ store_exists = TRUE
    /\ backup_dir = [d \in {} |-> [files |-> EmptyFiles, mtime |-> 0]]
    /\ max_backups \in 0..MaxRetention
    /\ clock = 0
    /\ rs = IdleRestore
    /\ last = Call("new", TRUE, NoName, "")
    /\ faults = 0
    /\ snaps = {}
    /\ hist = NoHistory
    /\ sched = "off"
    /\ calls = NoCalls

NextLive ==
    \/ \E S \in SUBSET (DataNames \cup {Sidecar}), failAt \in 0..MaxSeries : Backup(S, failAt)
    \/ \E failAt \in 0..MaxSeries : Cleanup(failAt)
    \/ \E name \in DirNames : Verify(name)
    \/ \E name \in DirNames : RestoreBegin(name)
    \/ \E S \in SUBSET (DataNames \cup {Sidecar}) : RestoreSnapshot(S)
    \/ \E S \in SUBSET (DataNames \cup {Sidecar}) : RestoreClear(S)
    \/ \E S \in SUBSET (DataNames \cup {Sidecar}) : RestoreCopy(S)
    \/ DropStore
    \/ CreateStore
    \/ Tick

SpecLive == InitLive /\ [][NextLive]_vars

\* ------------------------------------------- a live-data path with a subdirectory
SubDirNames == {"archive"}

\* the live data: the files of the service and a subdirectory holding a file
DeepFiles ==
    [f \in DataNames \cup SubDirNames |->
        IF f \in SubDirNames THEN SubDir([x \in {"segment"} |-> DataFile(<<3>>)])
        ELSE DataFile(Blobs[f])]

InitFlat ==
    /\ store = DeepFiles
    /\ store_exists = TRUE
    /\ backup_dir = [d \in {} |-> [files |-> EmptyFiles, mtime |-> 0]]
    /\ max_backups \in 0..MaxRetention
    /\ clock = 0
    /\ rs = IdleRestore
    /\ last = Call("new", TRUE, NoName, "")
    /\ faults = 0
    /\ snaps = {}
    /\ hist = NoHistory
    /\ sched = "off"
    /\ calls = NoCalls

\* the names of the entries a loop can come to handle
EntryNames == DataNames \cup {Sidecar} \cup SubDirNames

NextFlat ==
    \/ \E S \in SUBSET EntryNames, failAt \in 0..MaxRetention : Backup(S, failAt)
    \/ \E name \in DirNames : RestoreBegin(name)
    \/ \E S \in SUBSET EntryNames : RestoreSnapshot(S)
    \/ \E S \in SUBSET EntryNames : RestoreClear(S)
    \/ \E S \in SUBSET EntryNames : RestoreCopy(S)
    \/ \E f \in VolatileNames : WriteStore(f)
    \/ \E f \in VolatileNames : RemoveStoreFile(f)
    \/ Tick

SpecFlat == InitFlat /\ [][NextFlat]_vars

\* ------------------------------------------- calls that run at the same time
\* Each call is a sequence of file-system operations; the operations of two
\* tasks interleave, and nothing in the manager orders them.
Other(p) == CHOOSE q \in Tasks : q # p

\* task p enters the call c; calls that are in progress together overlap
Begun(p, c) ==
    [calls EXCEPT ![p] = [c EXCEPT !.overlap = calls[Other(p)].pc # "idle",
                                   !.n = calls[p].n + 1],
                  ![Other(p)].overlap = @ \/ calls[Other(p)].pc # "idle"]

\* the call of task p returns
Ended(c, ok, err) ==
    [c EXCEPT !.pc = "idle", !.ok = ok, !.err = err, !.todo = {}, !.rem = <<>>,
              !.listed = <<>>, !.at = 0, !.snap = NoName]

RaceFrame == UNCHANGED <<store_exists, max_backups, rs, last, faults, snaps, hist, sched>>

\* backup(): Utc::now(), create_dir_all, and copy_database_files up to read_dir
BackupStart(p) ==
    /\ calls[p].pc = "idle"
    /\ clock < MaxClock
    /\ LET backup_name == DirName(BackupPrefix, clock)
           c == [IdleCall EXCEPT !.op = "backup", !.name = backup_name, !.at = clock]
       IN /\ backup_dir' = create_dir_all(backup_dir, backup_name, clock)
          /\ calls' = Begun(p, IF ~store_exists
                               THEN Ended(c, FALSE, "Source database not found")
                               ELSE [c EXCEPT !.pc = IF CopiedNames(store) = {}
                                                     THEN "save" ELSE "copy",
                                              !.todo = CopiedNames(store)])
    /\ clock' = clock + 1
    /\ UNCHANGED store
    /\ RaceFrame

\* one std::fs::copy of the loop of copy_database_files; it fails when the
\* file or the destination directory is no longer there
BackupCopyFile(p, f) ==
    /\ calls[p].op = "backup" /\ calls[p].pc = "copy"
    /\ f \in calls[p].todo
    /\ LET c == calls[p]
           left == c.todo \ {f}
       IN IF c.name \notin DOMAIN backup_dir \/ f \notin CopiedNames(store)
          THEN /\ calls' = [calls EXCEPT ![p] = Ended(c, FALSE, "Failed to copy")]
               /\ UNCHANGED backup_dir
          ELSE /\ backup_dir' = copy_database_files(backup_dir, c.name, store, {f},
                                                    Now(clock))
               /\ calls' = [calls EXCEPT ![p] =
                              [c EXCEPT !.todo = left,
                                        !.pc = IF left = {} THEN "save" ELSE "copy"]]
    /\ UNCHANGED <<store, clock>>
    /\ RaceFrame

\* calculate_size and save_metadata; both fail when the directory is gone
BackupSave(p) ==
    /\ calls[p].op = "backup" /\ calls[p].pc = "save"
    /\ LET c == calls[p]
       IN IF c.name \notin DOMAIN backup_dir
          THEN /\ calls' = [calls EXCEPT ![p] = Ended(c, FALSE, "io")]
               /\ UNCHANGED backup_dir
          ELSE /\ backup_dir' =
                     save_metadata(backup_dir,
                                   BackupMetadata(c.name, c.at, c.name,
                                                  calculate_size(backup_dir[c.name].files),
                                                  "pkg"),
                                   Now(clock))
               /\ calls' = [calls EXCEPT ![p] = [c EXCEPT !.pc = "list"]]
    /\ UNCHANGED <<store, clock>>
    /\ RaceFrame

\* cleanup_old_backups: list_backups() and the slice to remove
PassList(p) ==
    /\ calls[p].pc = "list"
    /\ LET c == calls[p]
           backups == list_backups(backup_dir)
       IN calls' = [calls EXCEPT ![p] =
                      IF Len(backups) <= max_backups THEN Ended(c, TRUE, "")
                      ELSE [c EXCEPT !.pc = "rm", !.listed = backups,
                                     !.rem = to_remove(backups, max_backups)]]
    /\ UNCHANGED <<store, backup_dir, clock>>
    /\ RaceFrame

\* one remove_dir_all of the loop of cleanup_old_backups; it fails when the
\* directory is no longer there
PassRemove(p) ==
    /\ calls[p].pc = "rm"
    /\ LET c == calls[p]
           left == Tail(c.rem)
       IN IF Head(c.rem).backup_path \notin DOMAIN backup_dir
          THEN /\ calls' = [calls EXCEPT ![p] = Ended(c, FALSE, "Failed to remove backup")]
               /\ UNCHANGED backup_dir
          ELSE /\ backup_dir' = remove_dir_all(backup_dir, Head(c.rem).backup_path)
               /\ calls' = [calls EXCEPT ![p] =
                              IF left = <<>> THEN Ended(c, TRUE, "")
                              ELSE [c EXCEPT !.rem = left]]
    /\ UNCHANGED <<store, clock>>
    /\ RaceFrame

\* restore(): the existence check, load_metadata, validate_backup and the
\* pre-restore copy (create_dir_all and copy_database_files) of the live data
RestoreStart(p, name) ==
    /\ calls[p].pc = "idle"
    /\ LET c == [IdleCall EXCEPT !.op = "restore", !.name = name, !.at = Now(clock)]
           pre_restore_backup == DirName(PreRestorePrefix, Now(clock))
           verdict == IF name \notin DOMAIN backup_dir THEN "Backup not found"
                      ELSE IF load_metadata(backup_dir, name) = {} THEN "metadata"
                      ELSE validate_backup(backup_dir, Loaded(backup_dir, name))
       IN IF verdict # "ok"
          THEN /\ calls' = Begun(p, Ended(c, FALSE, verdict))
               /\ UNCHANGED backup_dir
          ELSE /\ backup_dir' =
                     IF ~store_exists
                     THEN create_dir_all(backup_dir, pre_restore_backup, Now(clock))
                     ELSE copy_database_files(
                              create_dir_all(backup_dir, pre_restore_backup, Now(clock)),
                              pre_restore_backup, store, CopiedNames(store), Now(clock))
               /\ calls' = Begun(p, IF ~store_exists
                                    THEN Ended(c, FALSE, "Source database not found")
                                    ELSE [c EXCEPT !.snap = pre_restore_backup,
                                                   !.pc = "clear"])
    /\ UNCHANGED <<store, clock>>
    /\ RaceFrame

\* restore_database_files: read_dir of the live-data path
RestoreClearBegin(p) ==
    /\ calls[p].pc = "clear"
    /\ calls' = [calls EXCEPT ![p] =
                   [@ EXCEPT !.todo = ClearedNames(store),
                             !.pc = IF ClearedNames(store) = {} THEN "read" ELSE "del"]]
    /\ UNCHANGED <<store, backup_dir, clock>>
    /\ RaceFrame

\* one std::fs::remove_file of the first loop; it fails when the file is gone
RestoreClearFile(p, f) ==
    /\ calls[p].pc = "del"
    /\ f \in calls[p].todo
    /\ LET c == calls[p]
           left == c.todo \ {f}
       IN IF f \notin DOMAIN store
          THEN /\ calls' = [calls EXCEPT ![p] = Ended(c, FALSE, "io")]
               /\ UNCHANGED store
          ELSE /\ store' = remove_files(store, {f})
               /\ calls' = [calls EXCEPT ![p] =
                              [c EXCEPT !.todo = left,
                                        !.pc = IF left = {} THEN "read" ELSE "del"]]
    /\ UNCHANGED <<backup_dir, clock>>
    /\ RaceFrame

\* read_dir of the backup directory; Ok(()) when it holds no file
RestoreCopyBegin(p) ==
    /\ calls[p].pc = "read"
    /\ LET c == calls[p]
       IN calls' = [calls EXCEPT ![p] =
                      IF c.name \notin DOMAIN backup_dir THEN Ended(c, FALSE, "io")
                      ELSE IF RestoredNames(backup_dir[c.name].files) = {}
                      THEN Ended(c, TRUE, "")
                      ELSE [c EXCEPT !.pc = "put",
                                     !.todo = RestoredNames(backup_dir[c.name].files)]]
    /\ UNCHANGED <<store, backup_dir, clock>>
    /\ RaceFrame

\* mutant: success is reported when the first file is copied
RestoreCopyFile_early(p, f) ==
    /\ calls[p].pc = "put"
    /\ f \in calls[p].todo
    /\ LET c == calls[p]
       IN IF c.name \notin DOMAIN backup_dir \/ f \notin DOMAIN backup_dir[c.name].files
          THEN /\ calls' = [calls EXCEPT ![p] = Ended(c, FALSE, "io")]
               /\ UNCHANGED store
          ELSE /\ store' = WriteInto(store, [x \in {f} |-> backup_dir[c.name].files[x]])
               /\ calls' = [calls EXCEPT ![p] = Ended(c, TRUE, "")]
    /\ UNCHANGED <<backup_dir, clock>>
    /\ RaceFrame

\* one std::fs::copy of the second loop; restore returns Ok(()) after the last
RestoreCopyFile(p, f) ==
    /\ calls[p].pc = "put"
    /\ f \in calls[p].todo
    /\ LET c == calls[p]
           left == c.todo \ {f}
       IN IF c.name \notin DOMAIN backup_dir \/ f \notin DOMAIN backup_dir[c.name].files
          THEN /\ calls' = [calls EXCEPT ![p] = Ended(c, FALSE, "io")]
               /\ UNCHANGED store
          ELSE /\ store' = WriteInto(store, [x \in {f} |-> backup_dir[c.name].files[x]])
               /\ calls' = [calls EXCEPT ![p] =
                              IF left = {} THEN Ended(c, TRUE, "")
                              ELSE [c EXCEPT !.todo = left]]
    /\ UNCHANGED <<backup_dir, clock>>
    /\ RaceFrame

\* the live service writes or removes a file between the calls; it is stopped
\* for the first restore and stays stopped
LiveWrite(f) ==
    /\ \A p \in Tasks : calls[p].pc = "idle" /\ calls[p].op # "restore"
    /\ \/ store' = WriteInto(store, [x \in {f} |-> DataFile(Blobs[x])]) /\ store' # store
       \/ f \in DOMAIN store /\ store' = remove_files(store, {f})
    /\ UNCHANGED <<backup_dir, clock, calls>>
    /\ RaceFrame

\* a step of the call task p is in
TaskStep(p) ==
    \/ \E f \in EntryNames : BackupCopyFile(p, f)
    \/ BackupSave(p)
    \/ PassList(p)
    \/ PassRemove(p)
    \/ RestoreClearBegin(p)
    \/ \E f \in EntryNames : RestoreClearFile(p, f)
    \/ RestoreCopyBegin(p)
    \/ \E f \in EntryNames : RestoreCopyFile(p, f)

\* a call task p starts
TaskStart(p) ==
    /\ calls[p].n < MaxCalls
    /\ \/ BackupStart(p)
       \/ \E name \in DOMAIN backup_dir : RestoreStart(p, name)

InitRace ==
    /\ store = [f \in {Sentinel} |-> DataFile(Blobs[f])]
    /\ store_exists = TRUE
    /\ backup_dir = [d \in {} |-> [files |-> EmptyFiles, mtime |-> 0]]
    /\ max_backups \in 0..MaxRetention
    /\ clock = 0
    /\ rs = IdleRestore
    /\ last = Call("new", TRUE, NoName, "")
    /\ faults = 0
    /\ snaps = {}
    /\ hist = NoHistory
    /\ sched = "off"
    /\ calls = NoCalls

NextRace ==
    \/ \E p \in Tasks : TaskStart(p)
    \/ \E p \in Tasks : TaskStep(p)
    \/ \E f \in VolatileNames : LiveWrite(f)
    \/ Tick

SpecRace == InitRace /\ [][NextRace]_vars

\* the second task has one call left to make
InitFair ==
    /\ store = [f \in {Sentinel} |-> DataFile(Blobs[f])]
    /\ store_exists = TRUE
    /\ backup_dir = [d \in {} |-> [files |-> EmptyFiles, mtime |-> 0]]
    /\ max_backups = MaxRetention
    /\ clock = 0
    /\ rs = IdleRestore
    /\ last = Call("new", TRUE, NoName, "")
    /\ faults = 0
    /\ snaps = {}
    /\ hist = NoHistory
    /\ sched = "off"
    /\ calls = [NoCalls EXCEPT ![2].n = MaxCalls - 1]

\* every file-system call returns: a task that is in a call takes its next step
SpecRaceFair ==
    InitFair /\ [][NextRace]_vars /\ \A p \in Tasks : WF_vars(TaskStep(p))

\* ------------------------------------------- a record saved and loaded again
\* the values of a BackupMetadata
Records ==
    [backup_name : DirNames, created_at : 0..(MaxClock - 1),
     store_path : {StorePath, ElsewherePath}, backup_path : DirNames,
     size_bytes : 0..MaxSize, version : {"pkg", "unknown"}]

\* the backups root holds the directories; the caller holds a record
InitCodec ==
    /\ store = [f \in {Sentinel} |-> DataFile(Blobs[f])]
    /\ store_exists = TRUE
    /\ backup_dir = [d \in DirNames |-> [files |-> EmptyFiles, mtime |-> 0]]
    /\ max_backups = 0
    /\ clock = 0
    /\ rs = IdleRestore
    /\ \E md \in Records : last = [Call("new", TRUE, NoName, "") EXCEPT !.ret = <<md>>]
    /\ faults = 0
    /\ snaps = {}
    /\ hist = NoHistory
    /\ sched = "off"
    /\ calls = NoCalls

\* save_metadata(&metadata) of the record held
SaveMetadata ==
    /\ last.op = "new"
    /\ backup_dir' = save_metadata(backup_dir, last.ret[1], clock)
    /\ last' = [Call("save", TRUE, last.ret[1].backup_path, "") EXCEPT !.ret = last.ret]
    /\ UNCHANGED <<store, store_exists, max_backups, clock, rs, faults, snaps, hist, sched, calls>>

\* load_metadata(&backup_path) of the directory the record was saved in
LoadMetadata ==
    /\ last.op = "save"
    /\ LET m == load_metadata(backup_dir, last.name)
       IN last' = [Call("load", m # {}, last.name, IF m # {} THEN "" ELSE "metadata")
                     EXCEPT !.ret = IF m = {} THEN Unit ELSE <<Loaded(backup_dir, last.name)>>]
    /\ UNCHANGED <<store, store_exists, backup_dir, max_backups, clock, rs, faults, snaps,
                   hist, sched, calls>>

NextCodec == SaveMetadata \/ LoadMetadata

SpecCodec == InitCodec /\ [][NextCodec]_vars

\* ------------------------------------------------------------- properties
FullBackup == last.op = "backup" /\ last.ok

\* C1: verify(name), called right after a successful create_backup() of a
\* store holding CURRENT returned name (the case in which the retention
\* pass of the call left the new directory in place), returns true
C1_VerifyAfterBackup ==
    (FullBackup /\ Sentinel \in DOMAIN store /\ last.name \in DOMAIN backup_dir)
        => verify(backup_dir, last.name) = <<TRUE>>

\* the snapshot directory of the restore call holds every file the store
\* had when the call started
SnapshotComplete ==
    /\ rs.snap \in DOMAIN backup_dir
    /\ \A f \in DOMAIN rs.start :
          /\ f \in DOMAIN backup_dir[rs.snap].files
          /\ backup_dir[rs.snap].files[f] = rs.start[f]

\* C2: when restore is about to delete, and whenever it has deleted a file
\* of the store, its pre_restore_ snapshot is completely written
C2_SnapshotBeforeDelete ==
    (rs.pc \in {"del", "copy"} \/ rs.deleted # {}) => SnapshotComplete

C2_Witness ==
    /\ rs.pc = "idle" /\ last.op = "restore" /\ ~last.ok
    /\ rs.deleted # {} /\ rs.deleted # DOMAIN rs.start

\* C3: the snapshot of every successful restore call still holds exactly
\* the files the store had when that call started
C3_SnapshotsKept ==
    \A s \in snaps :
        s.dir \in DOMAIN backup_dir /\ backup_dir[s.dir].files = s.files

\* C4: create_backup() returns success when its retention pass fails
C4_RetentionErrorNotPropagated ==
    (last.op = "backup" /\ last.err = "Failed to remove backup") => last.ok

\* the records of the listing before the call whose directory the call removed
RemovedRecords == {i \in 1..Len(last.listed) : last.listed[i].backup_path \in last.removed}

\* C5: cleanup() with N listed backups and retention count K < N removes
\* exactly the N-K oldest, leaves exactly K listed records, and every
\* remaining record is newer than every removed one
C5_CleanupRemovesOldest ==
    (last.op = "cleanup" /\ last.ok /\ Len(last.listed) > max_backups) =>
        LET after == list_backups(backup_dir)
        IN /\ Cardinality(last.removed) = Len(last.listed) - max_backups
           /\ Len(after) = max_backups
           /\ \A i \in RemovedRecords : \A j \in 1..Len(after) :
                 after[j].created_at > last.listed[i].created_at

\* C6: cleanup() returns the number of directories it removed
C6_CleanupReturnsCount ==
    (last.op = "cleanup" /\ last.ok) => last.ret = <<Cardinality(last.removed)>>

\* C7: after a successful create_backup() list_backups() returns at most
\* max_backups records
C7_RetentionBound ==
    FullBackup => Len(list_backups(backup_dir)) <= max_backups

C7_Witness ==
    /\ FullBackup /\ last.removed # {}
    /\ max_backups > 0 /\ Len(list_backups(backup_dir)) = max_backups

\* a successful restore is directly followed by a successful create_backup()
RestoreThenBackup ==
    /\ last.op = "restore" /\ last.ok
    /\ last'.op = "backup" /\ last'.ok

\* C8: the directory written by a create_backup() that directly follows
\* restore(name) has the same file names and bytes as the backup name
C8_SameDirectory ==
    [][RestoreThenBackup => last'.files = backup_dir[last.name].files]_vars

\* C8 amended: it holds every file of backup name but metadata.json with
\* the same bytes, next to its own metadata.json; and no other file when
\* the call created the directory
C8_SameDataFiles ==
    [][RestoreThenBackup =>
        LET old == backup_dir[last.name].files
            new == last'.files
        IN /\ \A f \in DOMAIN old \ {Sidecar} : f \in DOMAIN new /\ new[f] = old[f]
           /\ Sidecar \in DOMAIN new
           /\ from_str(new[Sidecar]) # {}
           /\ last'.fresh => DOMAIN new = DOMAIN old \cup {Sidecar}]_vars

C8_Witness ==
    /\ FullBackup /\ last.restored # NoName /\ last.fresh
    /\ "LOCK" \in DOMAIN last.files

ValidationErrors ==
    {"Backup not found", "Backup path does not exist", "Invalid backup: missing CURRENT file"}

\* C9: a restore that fails its validation changes nothing on the file system
C9_RejectedRestoreChangesNothing ==
    [][(rs.pc = "idle" /\ last'.op = "restore" /\ last'.err \in ValidationErrors)
       => UNCHANGED <<backup_dir, store, store_exists>>]_vars

C9_Witness ==
    /\ last.op = "restore" /\ last.err = "Invalid backup: missing CURRENT file"
    /\ last.name \in DOMAIN backup_dir
    /\ store # EmptyFiles

PreRestoreDirs(dirs) == {d \in DOMAIN dirs : d.pre = PreRestorePrefix}

\* C10: no step removes a pre_restore_ directory, and no listed record (the
\* records the retention count is applied to) is one of a pre_restore_
\* directory
C10_SnapshotsNeverDeleted ==
    [][/\ PreRestoreDirs(backup_dir) \subseteq PreRestoreDirs(backup_dir')
       /\ \A i \in 1..Len(list_backups(backup_dir')) :
             list_backups(backup_dir')[i].backup_path.pre # PreRestorePrefix]_vars

C10_Witness ==
    /\ last.op \in {"backup", "cleanup"} /\ last.removed # {}
    /\ PreRestoreDirs(backup_dir) # {}

\* ------------------------------------------------- properties of the catalog
Made(i) == hist.made[i].metadata

\* C11: after N successful create_backup() calls and no other change of the
\* backups root, with a retention count of at least N, list_backups()
\* returns exactly N records, strictly descending by created_at
C11_ExactlyN ==
    (hist.pure /\ Len(hist.made) <= max_backups) =>
        LET l == list_backups(backup_dir)
        IN /\ Len(l) = Len(hist.made)
           /\ \A i \in 1..(Len(l) - 1) : l[i].created_at > l[i + 1].created_at

\* C12: any two successful create_backup() calls return different names and
\* different directories, and the order of the names (of their timestamps)
\* is the order of created_at
C12_UniqueNames ==
    \A i, j \in 1..Len(hist.made) :
        i < j => /\ Made(i).backup_name # Made(j).backup_name
                 /\ Made(i).backup_path # Made(j).backup_path
                 /\ (Made(i).created_at < Made(j).created_at
                        <=> Made(i).backup_name.ts < Made(j).backup_name.ts)

\* the calls of the manager, as opposed to what somebody else does
ManagerCalls == {"backup", "cleanup", "restore", "restoring", "list", "verify"}

\* C13: a call of the manager leaves the directory of every record
\* create_backup() has returned as it was returned, files and sidecar, or
\* removes it whole
C13_NeverModified ==
    [][\A i \in 1..Len(hist.made) :
          LET d == Made(i).backup_path
          IN (/\ last'.op \in ManagerCalls
              /\ d \in DOMAIN backup_dir
              /\ backup_dir[d].files = hist.made[i].files
              /\ d \in DOMAIN backup_dir')
             => backup_dir'[d].files = hist.made[i].files]_vars

\* somebody has changed a file of a directory that was as create_backup()
\* returned it
TamperedBackup ==
    /\ last.op = "tamper"
    /\ \E i \in 1..Len(hist.made) :
          Made(i).backup_path = last.name /\ hist.made[i].files = last.files

\* C14: verify(name) returns false once a file of the backup directory
\* create_backup() produced is truncated or removed
C14_VerifyDetectsTampering ==
    TamperedBackup => verify(backup_dir, last.name) = <<FALSE>>

\* C15: the scheduler loop goes on after a failed backup(): every tick of
\* the timer is followed by a call of backup(), and every call, failed or
\* not, by the next tick
C15_SchedulerKeepsRunning ==
    /\ (sched = "wait") ~> (sched = "due")
    /\ (sched = "due") ~> (sched = "wait")

C15_Witness ==
    sched = "due" /\ last.op = "backup" /\ ~last.ok

\* C16: cleanup() with at most max_backups listed backups removes nothing
\* and returns the count zero, not an error
C16_NoopCleanupReturnsZero ==
    (last.op = "cleanup" /\ Len(last.listed) <= max_backups) =>
        (last.ok /\ last.removed = {} /\ last.ret = <<0>>)

RecognizedPrefixes == {BackupPrefix, PreRestorePrefix}

\* C17: list_backups() does not fail, returns the empty sequence on an empty
\* backups root, and returns no record of a directory whose name has no
\* recognized prefix
C17_ListSkipsOtherNames ==
    last.op = "list" =>
        /\ last.ok
        /\ DOMAIN backup_dir = {} => last.listed = <<>>
        /\ \A i \in 1..Len(last.listed) :
              last.listed[i].backup_path.pre \in RecognizedPrefixes
        /\ Len(last.listed) <=
              Cardinality({d \in DOMAIN backup_dir : d.pre \in RecognizedPrefixes})

C17_Witness ==
    /\ last.op = "list" /\ OtherDir \in DOMAIN backup_dir
    /\ Sentinel \in DOMAIN backup_dir[OtherDir].files
    /\ Len(last.listed) = 1

BackupDirs(dirs) == {d \in DOMAIN dirs : d.pre = BackupPrefix}

\* the sidecar of directory d is there and is no record
Corrupt(dirs, d) ==
    Sidecar \in DOMAIN dirs[d].files /\ from_str(dirs[d].files[Sidecar]) = {}

\* C18: list_backups() skips a backup directory whose sidecar is corrupt and
\* still returns the record of every other backup directory
C18_CorruptEntrySkipped ==
    last.op = "list" =>
        /\ last.ok
        /\ \A d \in BackupDirs(backup_dir) :
              IF Corrupt(backup_dir, d)
              THEN \A i \in 1..Len(last.listed) : last.listed[i].backup_path # d
              ELSE \E i \in 1..Len(last.listed) : last.listed[i].backup_path = d

C18_Witness ==
    /\ last.op = "list" /\ last.ok /\ Len(last.listed) = 1
    /\ \E d \in BackupDirs(backup_dir) : Corrupt(backup_dir, d)

\* the record of a directory that has no sidecar
Synthesized(dirs, d) ==
    [backup_name |-> d, created_at |-> dirs[d].mtime, store_path |-> StorePath,
     backup_path |-> d, size_bytes |-> calculate_size(dirs[d].files), version |-> "unknown"]

C20_GetAfterDelete ==
    [][(last.op = "delete" /\ last.ok /\ last'.op = "get" /\ last'.name = last.name)
        => (~last'.ok /\ last'.err = "NotFound")]_vars

C20_Witness ==
    /\ last.op = "get" /\ last.err = "NotFound" /\ max_backups > 0
    /\ \E i \in 1..Len(hist.made) : Made(i).backup_path = last.name

\* ------------------------------------------------- properties of the sidecar
\* C24: a record saved as the metadata.json sidecar and loaded again is the
\* record that was saved, in each of its six fields
C24_RoundTrip ==
    [][last'.op = "load" =>
        /\ last'.ok
        /\ \A k \in {"backup_name", "created_at", "store_path", "backup_path",
                      "size_bytes", "version"} : last'.ret[1][k] = last.ret[1][k]
        /\ DOMAIN last'.ret[1] = DOMAIN last.ret[1]]_vars

C24_Witness ==
    /\ last.op = "load" /\ last.ok
    /\ last.ret[1].size_bytes > 9
    /\ last.ret[1].created_at % TicksPerSec # 0
    /\ last.ret[1].store_path = ElsewherePath
    /\ last.ret[1].backup_name # last.ret[1].backup_path


\* ------------------------------------- properties of the calls that fail
\* the backup restore(d) accepts: its directory is there, its record loads
\* and validate_backup passes
ValidBackup(dirs, d) ==
    /\ d \in DOMAIN dirs
    /\ load_metadata(dirs, d) # {}
    /\ validate_backup(dirs, Loaded(dirs, d)) = "ok"

\* C21: restore(name) of a valid backup, called when the live-data path does
\* not exist, creates the live-data directory and ends successfully with
\* the files of the backup copied into it
C21_RestoreCreatesStore ==
    [][(/\ rs.pc = "idle" /\ ~store_exists
        /\ last' # last
        /\ last'.op = "restore" /\ ValidBackup(backup_dir, last'.name))
       => /\ last'.ok
          /\ store_exists'
          /\ \A f \in DOMAIN backup_dir[last'.name].files :
                f \in DOMAIN store' /\ store'[f] = backup_dir[last'.name].files[f]]_vars

\* C23: verify(name) and restore(name) of a name that has no directory
\* under the backups root fail with the not-found error and change nothing
\* on the file system
C23_UnknownNameChangesNothing ==
    [][(/\ rs.pc = "idle"
        /\ last' # last
        /\ last'.op \in {"verify", "restore", "restoring"}
        /\ last'.name \notin DOMAIN backup_dir)
       => /\ last'.op # "restoring"
          /\ ~last'.ok
          /\ last'.err = "Backup not found"
          /\ UNCHANGED <<backup_dir, store, store_exists>>]_vars

C23_Witness ==
    /\ last.op = "verify" /\ last.err = "Backup not found"
    /\ last.name.pre = BackupPrefix
    /\ BackupDirs(backup_dir) # {}
    /\ store # EmptyFiles

\* the directory d holds the sentinel and verify(d) is false: the size of
\* its files is not the recorded one
SizeMismatch(dirs, d) ==
    /\ d \in DOMAIN dirs
    /\ Sentinel \in DOMAIN dirs[d].files
    /\ verify(dirs, d) = <<FALSE>>

\* C22: restore(name) of a backup whose directory holds CURRENT and on which
\* verify(name) is false passes its validation: it goes on to take the
\* pre-restore snapshot, and is not refused for the size
C22_RestoreIgnoresSize ==
    [][(/\ rs.pc = "idle"
        /\ last' # last
        /\ last'.op \in {"restore", "restoring"}
        /\ SizeMismatch(backup_dir, last'.name))
       => /\ last'.err \in {"", "Source database not found"}
          /\ DirName(PreRestorePrefix, clock) \in DOMAIN backup_dir']_vars


\* C25: when a deletion of cleanup() fails, the call returns that error; the
\* directories named by the excess records before the failing one, newest
\* first, are deleted and stay so, and the call has deleted no other directory:
\* what the failing record and the records after it name is left as it was
C25_CleanupFailFast ==
    (last.op = "cleanup" /\ ~last.ok) =>
        LET rem == to_remove(last.listed, max_backups)
        IN /\ last.err = "Failed to remove backup"
           /\ \E i \in 1..Len(rem) :
                 /\ last.removed = {rem[j].backup_path : j \in 1..(i - 1)}
                 /\ \A j \in 1..(i - 1) : rem[j].backup_path \notin DOMAIN backup_dir

\* a deletion failed with excess backups on either side of it
C25_Witness ==
    /\ last.op = "cleanup" /\ ~last.ok
    /\ Len(to_remove(last.listed, max_backups)) > 1
    /\ last.removed # {}


\* the step writes no metadata.json and removes no directory
NoSidecarNoRetention ==
    /\ DOMAIN backup_dir \subseteq DOMAIN backup_dir'
    /\ \A d \in DOMAIN backup_dir' :
          Sidecar \in DOMAIN backup_dir'[d].files =>
             /\ d \in DOMAIN backup_dir
             /\ Sidecar \in DOMAIN backup_dir[d].files
             /\ backup_dir'[d].files[Sidecar] = backup_dir[d].files[Sidecar]

\* C26: create_backup() called when the live-data path does not exist fails
\* with the not-found error, writes no sidecar and runs no retention pass
C26_MissingSourceFails ==
    [][(rs.pc = "idle" /\ ~store_exists /\ last'.op = "backup")
       => /\ ~last'.ok
          /\ last'.err = "Source database not found"
          /\ NoSidecarNoRetention]_vars

\* the call failed where its retention pass would have removed a backup
C26_Witness ==
    /\ last.op = "backup" /\ last.err = "Source database not found"
    /\ Len(list_backups(backup_dir)) > max_backups
    /\ \E d \in BackupDirs(backup_dir) : Sidecar \in DOMAIN backup_dir[d].files

\* C27: create_backup() in which the copy of some file fails returns an
\* error; the directory, the files it held and the files copied before the
\* failure stay, no sidecar is written (a metadata.json there is the one it
\* held or the copy of a live-data file of that name) and no retention pass
\* runs
C27_CopyFailureNoRollback ==
    [][(rs.pc = "idle" /\ last'.op = "backup" /\ last'.err = "Failed to copy")
       => /\ ~last'.ok
          /\ last'.name \in DOMAIN backup_dir'
          /\ \A f \in DOMAIN backup_dir'[last'.name].files :
                \/ f \in DOMAIN store /\ backup_dir'[last'.name].files[f] = store[f]
                \/ /\ last'.name \in DOMAIN backup_dir
                   /\ f \in DOMAIN backup_dir[last'.name].files
                   /\ backup_dir'[last'.name].files[f] = backup_dir[last'.name].files[f]
          /\ \A d \in DOMAIN backup_dir :
                /\ d \in DOMAIN backup_dir'
                /\ DOMAIN backup_dir[d].files \subseteq DOMAIN backup_dir'[d].files
                /\ d # last'.name => backup_dir'[d] = backup_dir[d]]_vars

\* one file of two was copied, and the retention pass would have removed a backup
C27_Witness ==
    /\ last.op = "backup" /\ last.err = "Failed to copy"
    /\ Cardinality(DOMAIN store) = 2
    /\ \E f \in DOMAIN store :
          /\ DOMAIN backup_dir[last.name].files = {f}
          /\ backup_dir[last.name].files[f] = store[f]
    /\ Len(list_backups(backup_dir)) > max_backups


\* C28: a create_backup() that fails for a missing source or a failed copy
\* adds no record: list_backups() returns after it what it returned before
C28_FailedBackupAddsNoRecord ==
    [][(/\ rs.pc = "idle" /\ last'.op = "backup"
        /\ last'.err \in {"Source database not found", "Failed to copy"})
       => list_backups(backup_dir') = list_backups(backup_dir)]_vars

\* C29: a retention pass deletes no completed backup (one whose record was
\* saved) while it keeps a directory a failed create_backup() left behind
\* (one of the backup prefix without sidecar)
C29_RetentionKeepsCompleted ==
    (last.op \in {"backup", "cleanup"} /\ last.ok) =>
        ~ /\ \E i \in RemovedRecords : last.listed[i].version # "unknown"
          /\ \E d \in BackupDirs(backup_dir) : Sidecar \notin DOMAIN backup_dir[d].files

\* C30: after a successful create_backup() the directory of the returned
\* record exists and list_backups() holds a record of that name, whatever
\* the retention count
C30_NewBackupListed ==
    FullBackup =>
        /\ last.name \in DOMAIN backup_dir
        /\ \E i \in 1..Len(list_backups(backup_dir)) :
              list_backups(backup_dir)[i].backup_name = last.name


\* ------------------------------------------ properties of restore and the catalog
\* a step in which a restore call starts
RestoreStarts ==
    rs.pc = "idle" /\ last' # last /\ last'.op \in {"restore", "restoring"}

\* C31: restore(name) validates the directory called name: when it exists
\* and holds CURRENT the call passes its validation, whatever the other
\* directories of the backups root are
C31_ValidatesNamedDirectory ==
    [][(/\ RestoreStarts
        /\ last'.name \in DOMAIN backup_dir
        /\ Sentinel \in DOMAIN backup_dir[last'.name].files)
       => last'.err \notin ValidationErrors]_vars

\* C32: list_backups() returns one record for each directory it lists, and
\* the backup_name and backup_path of the record are those of the directory
\* it was loaded from
C32_RecordsNameTheirDirectory ==
    /\ \A d \in Listed(backup_dir) :
          Loaded(backup_dir, d).backup_name = d /\ Loaded(backup_dir, d).backup_path = d
    /\ \A i, j \in 1..Len(list_backups(backup_dir)) :
          i # j => list_backups(backup_dir)[i].backup_path # list_backups(backup_dir)[j].backup_path

\* a step of a restore call
RestoreStep == RestoreStarts \/ rs.pc # "idle"

\* C33: no step of a restore call, whether the call succeeds or fails, adds,
\* removes or changes a dmpool_backup_ directory
C33_RestoreRunsNoRetention ==
    [][RestoreStep =>
        /\ BackupDirs(backup_dir') = BackupDirs(backup_dir)
        /\ \A d \in BackupDirs(backup_dir) : backup_dir'[d] = backup_dir[d]]_vars

\* a restore has succeeded where a retention pass would have removed a backup
C33_Witness ==
    /\ last.op = "restore" /\ last.ok
    /\ Len(list_backups(backup_dir)) > max_backups


\* the subdirectories among the entries of a directory
SubDirsOf(files) == {f \in DOMAIN files : ~is_file(files[f])}

\* C34: no backup or pre-restore directory ever holds a subdirectory of the
\* live data (the copy takes the regular files directly under the source
\* path only), and no step of a restore or of any other call removes or
\* changes a subdirectory of the live-data path
C34_FlatCopyAndClear ==
    [][/\ \A d \in DOMAIN backup_dir' : SubDirsOf(backup_dir'[d].files) = {}
       /\ \A f \in SubDirsOf(store) : f \in DOMAIN store' /\ store'[f] = store[f]]_vars

\* a backup of a live-data path with a subdirectory has been taken and
\* restored, with files removed from the live data by the restore
C34_Witness ==
    /\ last.op = "restore" /\ last.ok
    /\ last.name.pre = BackupPrefix
    /\ rs.deleted # {}
    /\ SubDirsOf(store) # {}
    /\ Sidecar \in DOMAIN store

\* the backup call of task p has created its directory and has not yet
\* written the sidecar
Producing(p) == calls[p].op = "backup" /\ calls[p].pc \in {"copy", "save"}

\* the place of directory d in the listing a retention pass took (0 when absent)
PlaceIn(listed, d) ==
    IF \E i \in 1..Len(listed) : listed[i].backup_path = d
    THEN CHOOSE i \in 1..Len(listed) : listed[i].backup_path = d
    ELSE 0

\* C35: nothing keeps a retention pass away from the directory a backup() call
\* is still producing: the directory is listed like any other, and when it
\* disappears before the call returns, it is a remove_dir_all of the retention
\* pass of the other task that removed it, because the listing of that pass
\* held more than max_backups records and this directory came after the
\* max_backups newest
C35_PassRemovesUnfinishedBackup ==
    [][\A p \in Tasks :
          (/\ Producing(p)
           /\ calls[p].name \in DOMAIN backup_dir
           /\ calls[p].name \notin DOMAIN backup_dir')
          => LET q == Other(p)
             IN /\ calls[q].pc = "rm"
                /\ Head(calls[q].rem).backup_path = calls[p].name
                /\ Len(calls[q].listed) > max_backups
                /\ PlaceIn(calls[q].listed, calls[p].name) > max_backups]_vars

\* a backup() call that has not returned has lost its directory to the
\* retention pass of a second, newer backup, with a retention count above zero
C35_Witness ==
    \E p \in Tasks :
        /\ Producing(p)
        /\ calls[p].name \notin DOMAIN backup_dir
        /\ max_backups > 0
        /\ calls[Other(p)].op = "backup"
        /\ calls[Other(p)].name.ts > calls[p].name.ts
        /\ calls[Other(p)].name \in DOMAIN backup_dir

\* the last call of each task was a restore, the two calls were in progress
\* together, and both returned Ok
BothRestored ==
    \A p \in Tasks :
        /\ calls[p].op = "restore" /\ calls[p].pc = "idle"
        /\ calls[p].ok /\ calls[p].overlap

\* the regular files among the entries of a directory
FilesIn(files) == {f \in DOMAIN files : is_file(files[f])}

\* the live data is the file set of directory d
LiveDataIs(d) ==
    /\ d \in DOMAIN backup_dir
    /\ FilesIn(store) = FilesIn(backup_dir[d].files)
    /\ \A f \in FilesIn(store) : store[f] = backup_dir[d].files[f]

\* C36: nothing orders two restores onto the same live-data path; when both
\* have returned Ok, every file of the live data is a file one of the two
\* backups holds, with the bytes it has there, and nothing more is promised:
\* the live data need not be the file set of either backup
C36_RestoresMix ==
    BothRestored =>
        \A f \in FilesIn(store) :
            \E p \in Tasks :
                /\ calls[p].name \in DOMAIN backup_dir
                /\ f \in FilesIn(backup_dir[calls[p].name].files)
                /\ store[f] = backup_dir[calls[p].name].files[f]

\* two restores of different backups were in progress together, both returned
\* Ok, and the live data is the file set of neither backup
C36_Witness ==
    /\ BothRestored
    /\ calls[1].name # calls[2].name
    /\ \A p \in Tasks : calls[p].name \in DOMAIN backup_dir /\ ~LiveDataIs(calls[p].name)

\* the backup() call of task p has returned after it wrote its sidecar: it
\* returned Ok, or the error of its retention pass
SavedAndReturned(p) ==
    /\ calls[p].op = "backup" /\ calls[p].pc = "idle"
    /\ calls[p].ok \/ calls[p].err = "Failed to remove backup"

\* C37: when two backup() calls were in progress together and both copied
\* their files and wrote their sidecar, both return Ok and exactly max_backups
\* records are listed afterwards (stated for a retention count above zero and
\* two calls that wrote different directories)
C37_ConcurrentBackupsSucceed ==
    (/\ \A p \in Tasks : SavedAndReturned(p) /\ calls[p].overlap
     /\ max_backups > 0
     /\ calls[1].name # calls[2].name)
        => /\ \A p \in Tasks : calls[p].ok
           /\ Len(list_backups(backup_dir)) = max_backups

\* the step in which the restore() call of task p returns Ok
RestoreReturnsOk(p) ==
    /\ calls[p].op = "restore" /\ calls[p].pc # "idle"
    /\ calls'[p].pc = "idle" /\ calls'[p].ok

====
